---- MODULE Spec2Model ----
(***************************************************************************)
(* SmartSeva: the session memory isolation layer (core/memory_manager.py)  *)
(* and the query orchestration pipeline (core/rag_engine.py).              *)
(*                                                                         *)
(* A text is a sequence of characters; character 0 is a blank, every other *)
(* natural number a distinct non-blank character.  <<>> is the empty text. *)
(***************************************************************************)
EXTENDS Integers, Sequences, FiniteSets, TLC

----------------------------------------------------------------------------
(* Program constants and bounds of the model *)

\* MEMORY_CONFIG["window_size"]
window_size == 6

\* caller-supplied chat ids
ChatIds == {"A", "B"}

\* ids uuid.uuid4() can still hand out; every call returns an unused one
UuidPool == {"u1"}

\* how many exchanges a client saves into one memory before it is emptied
MaxCommits == 7

\* the process_query calls of one behaviour
Gens == {1, 2}

\* how many non-empty chunks the completion stream of one call delivers
MaxChunks == 2

\* longest transcript handed to load_chat_messages_from_history
MaxMsgs == 15

\* how many malformed messages a transcript holds at most
MaxBad == 1

\* how many documents the retriever returns at most
MaxDocs == 6

\* how many empty chunks the completion stream delivers in a row
MaxEmpties == 1

----------------------------------------------------------------------------
(* Values *)

\* Python's None and the empty string: the two falsy chat ids
None == "<None>"
EmptyStr == ""
Falsy == {None, EmptyStr}

AllIds == ChatIds \cup UuidPool

\* placeholder passed where no uuid is drawn
NoUuid == "<no-uuid>"

Max(a, b) == IF a >= b THEN a ELSE b
Min(a, b) == IF a <= b THEN a ELSE b

\* python's xs[-n:] for n >= 1
LastN(n, xs) == IF Len(xs) <= n THEN xs ELSE SubSeq(xs, Len(xs) - n + 1, Len(xs))

\* a one-character non-blank text
Txt(n) == <<n>>

VARIABLES
  chat_memories,    \* ChatMemoryManager.chat_memories: id -> memory
  current_chat_id,  \* ChatMemoryManager.current_chat_id
  minted,           \* uuids handed out so far
  committed,        \* history: per id, the pairs saved since its memory was last empty
  focus_lost,       \* history: the focused chat was deleted and none focused since
  ret,              \* the last call and what it returned
  transcript,       \* the persisted message list handed to rehydration
  chain,            \* RAGEngine.chain is not None
  store_ok,         \* the vector store is available or can be reinitialized
  gens,             \* the process_query generators: per call, where it is suspended
  documents,        \* the documents the retriever returned, handed to context assembly
  chat_data,        \* ChatService: the persisted chat history file, id -> chat
  deleted           \* history: the ids a delete removed

mmvars == <<chat_memories, current_chat_id, minted, committed, focus_lost>>
pqvars == <<chain, store_ok, gens>>
auxvars == <<documents, chat_data, deleted>>
vars == <<chat_memories, current_chat_id, minted, committed, focus_lost, ret, transcript,
          chain, store_ok, gens, documents, chat_data, deleted>>

----------------------------------------------------------------------------
(* ConversationBufferWindowMemory, as the manager uses it *)

\* ChatMemoryManager.__init__: max_memory_size
max_memory_size == window_size

\* ConversationBufferWindowMemory(k = max_memory_size): no messages yet
NewMemory_KPlusOne == [k |-> max_memory_size + 1, msgs |-> <<>>]
NewMemory == [k |-> max_memory_size, msgs |-> <<>>]

\* memory.save_context: the pair goes to the end of the message list
MemSave(m, pair) == [m EXCEPT !.msgs = Append(@, pair)]

\* memory.load_memory_variables({})["history"]: the last k pairs
MemHistory(m) == IF m.k > 0 THEN LastN(m.k, m.msgs) ELSE <<>>

\* memory.clear()
MemClear(m) == [m EXCEPT !.msgs = <<>>]

----------------------------------------------------------------------------
(* The manager's state as a value, and its methods as functions on it.     *)
(* Each method returns [mm |-> state after, val |-> returned value].       *)

MM == [mem |-> chat_memories, cur |-> current_chat_id, log |-> committed, lost |-> focus_lost]

Put(f, key, v) == [x \in (DOMAIN f) \cup {key} |-> IF x = key THEN v ELSE f[x]]
Drop(f, key) == [x \in (DOMAIN f) \ {key} |-> f[x]]

\* create_new_chat_memory(chat_id); u is what uuid.uuid4() returns
create_new_chat_memory(mm, chat_id, u) ==
  LET id == IF chat_id \in Falsy THEN u ELSE chat_id
  IN  [mm |-> [mm EXCEPT !.mem = Put(@, id, NewMemory), !.log = Put(@, id, <<>>)],
       val |-> id]

\* switch_to_chat(chat_id)
switch_to_chat(mm, chat_id, u) ==
  LET m1 == IF chat_id \notin DOMAIN mm.mem
            THEN create_new_chat_memory(mm, chat_id, u).mm
            ELSE mm
  IN  [mm |-> [m1 EXCEPT !.cur = chat_id, !.lost = FALSE], val |-> TRUE]

\* get_current_memory() is not None
HasCurrentMemory(mm) == mm.cur \notin Falsy /\ mm.cur \in DOMAIN mm.mem

\* save_context({"input": i}, {"output": o})
save_context_AnyMemory(mm, i, o) ==
  LET id == IF HasCurrentMemory(mm) THEN mm.cur
            ELSE IF DOMAIN mm.mem = {} THEN None
            ELSE CHOOSE x \in DOMAIN mm.mem : TRUE
  IN  IF id = None
      THEN [mm |-> mm, val |-> FALSE]
      ELSE [mm |-> [mm EXCEPT !.mem[id] = MemSave(@, <<i, o>>),
                              !.log[id] = Append(@, <<i, o>>)],
            val |-> TRUE]
save_context_Dedup(mm, i, o) ==
  IF ~HasCurrentMemory(mm)
  THEN [mm |-> mm, val |-> FALSE]
  ELSE IF \E n \in 1..Len(mm.mem[mm.cur].msgs) : mm.mem[mm.cur].msgs[n] = <<i, o>>
  THEN [mm |-> mm, val |-> TRUE]
  ELSE [mm |-> [mm EXCEPT !.mem[mm.cur] = MemSave(@, <<i, o>>),
                          !.log[mm.cur] = Append(@, <<i, o>>)],
        val |-> TRUE]
save_context(mm, i, o) ==
  IF ~HasCurrentMemory(mm)
  THEN [mm |-> mm, val |-> FALSE]
  ELSE [mm |-> [mm EXCEPT !.mem[mm.cur] = MemSave(@, <<i, o>>),
                          !.log[mm.cur] = Append(@, <<i, o>>)],
        val |-> TRUE]

\* load_memory_variables()["history"]
load_memory_variables_AllMessages(mm) ==
  IF ~HasCurrentMemory(mm) THEN <<>> ELSE mm.mem[mm.cur].msgs
load_memory_variables(mm) ==
  IF ~HasCurrentMemory(mm) THEN <<>> ELSE MemHistory(mm.mem[mm.cur])

\* clear_current_chat_memory()
clear_current_chat_memory_ClearAll(mm) ==
  IF ~HasCurrentMemory(mm)
  THEN [mm |-> mm, val |-> FALSE]
  ELSE [mm |-> [mm EXCEPT !.mem = [x \in DOMAIN mm.mem |-> MemClear(mm.mem[x])],
                          !.log = [x \in DOMAIN mm.log |-> <<>>]],
        val |-> TRUE]
clear_current_chat_memory(mm) ==
  IF ~HasCurrentMemory(mm)
  THEN [mm |-> mm, val |-> FALSE]
  ELSE [mm |-> [mm EXCEPT !.mem[mm.cur] = MemClear(@), !.log[mm.cur] = <<>>],
        val |-> TRUE]

\* delete_chat_memory(chat_id)
delete_chat_memory_KeepFocus(mm, chat_id) ==
  IF chat_id \in DOMAIN mm.mem
  THEN [mm |-> [mem |-> Drop(mm.mem, chat_id),
                cur |-> mm.cur,
                log |-> Drop(mm.log, chat_id),
                lost |-> mm.lost \/ mm.cur = chat_id],
        val |-> TRUE]
  ELSE [mm |-> mm, val |-> FALSE]
delete_chat_memory_AlwaysUnfocus(mm, chat_id) ==
  IF chat_id \in DOMAIN mm.mem
  THEN [mm |-> [mem |-> Drop(mm.mem, chat_id),
                cur |-> None,
                log |-> Drop(mm.log, chat_id),
                lost |-> mm.lost \/ mm.cur = chat_id],
        val |-> TRUE]
  ELSE [mm |-> [mm EXCEPT !.cur = None], val |-> FALSE]
delete_chat_memory(mm, chat_id) ==
  IF chat_id \in DOMAIN mm.mem
  THEN [mm |-> [mem |-> Drop(mm.mem, chat_id),
                cur |-> IF mm.cur = chat_id THEN None ELSE mm.cur,
                log |-> Drop(mm.log, chat_id),
                lost |-> mm.lost \/ mm.cur = chat_id],
        val |-> TRUE]
  ELSE [mm |-> mm, val |-> FALSE]

----------------------------------------------------------------------------
(* Persisted messages and rehydration *)

Roles == {"user", "Virtual Assistant", "assistant"}

\* the role rehydration expects at (1-based) position n of a transcript
ExpectedRole(n) == IF n % 2 = 1 THEN "user" ELSE "Virtual Assistant"

\* the well-formed message at position n; its content is unique to n
Good(n) == [role |-> ExpectedRole(n), content |-> Txt(n)]

\* the ways a message at position n can fail the validation
BadKinds == {"empty content", "no content", "store role", "other role", "no role"}

OtherRole(n) == IF n % 2 = 1 THEN "Virtual Assistant" ELSE "user"

BadMsg(n, kind) ==
  CASE kind = "empty content" -> [role |-> ExpectedRole(n), content |-> <<>>]
    [] kind = "no content"    -> [role |-> ExpectedRole(n)]
    [] kind = "store role"    -> [role |-> "assistant", content |-> Txt(n)]
    [] kind = "other role"    -> [role |-> OtherRole(n), content |-> Txt(n)]
    [] kind = "no role"       -> [content |-> Txt(n)]

\* the transcript of n messages that are Good except where bad names a kind
TranscriptOf(n, bad) ==
  [i \in 1..n |-> IF i \in DOMAIN bad THEN BadMsg(i, bad[i]) ELSE Good(i)]

\* the choices of at most MaxBad malformed positions among n, with their kinds
BadChoices(n) ==
  UNION {[S -> BadKinds] : S \in {T \in SUBSET (1..n) : Cardinality(T) <= MaxBad}}

\* the transcripts rehydrated between other calls: none, a lone message, one
\* well-formed pair, one pair in the store's "assistant" role
SmallTranscripts ==
  {<<>>, <<Good(1)>>, <<Good(1), Good(2)>>,
   <<Good(1), [role |-> "assistant", content |-> Txt(2)]>>}

\* dict.get(key) is truthy / equals a value
GetRole(msg) == IF "role" \in DOMAIN msg THEN msg.role ELSE None
HasContent(msg) == "content" \in DOMAIN msg /\ msg.content # <<>>

\* the validation of one (user_msg, assistant_msg) pair
ValidPair(user_msg, assistant_msg) ==
  /\ GetRole(user_msg) = "user"
  /\ GetRole(assistant_msg) = "Virtual Assistant"
  /\ HasContent(user_msg) /\ HasContent(assistant_msg)

\* the loop "for i in range(0, len(chat_messages) - 1, 2)" from index i on
\* (i is the python index; chat_messages[i] is t[i + 1])
RECURSIVE message_pairs_from(_, _)
message_pairs_from(t, i) ==
  IF i >= Len(t) - 1 THEN <<>>
  ELSE (IF ValidPair(t[i + 1], t[i + 2])
        THEN <<(<<t[i + 1].content, t[i + 2].content>>)>>
        ELSE <<>>) \o message_pairs_from(t, i + 2)

message_pairs(t) == message_pairs_from(t, 0)

\* max_pairs = max(1, self.max_memory_size // 2)
max_pairs == Max(1, max_memory_size \div 2)

\* recent_pairs = message_pairs[-max_pairs:] if longer, else all of them
recent_pairs(mp) == IF Len(mp) > max_pairs THEN LastN(max_pairs, mp) ELSE mp

\* the loop that saves recent_pairs one by one; n counts the saves that
\* returned True
RECURSIVE SaveAll(_, _, _)
SaveAll(mm, pairs, n) ==
  IF pairs = <<>> THEN [mm |-> mm, val |-> n]
  ELSE LET r == save_context(mm, Head(pairs)[1], Head(pairs)[2])
       IN  SaveAll(r.mm, Tail(pairs), IF r.val THEN n + 1 ELSE n)

\* load_chat_messages_from_history(chat_id, chat_messages)
load_chat_messages_from_history_AnyTrue(mm, chat_id, chat_messages, u) ==
  LET m1 == switch_to_chat(mm, chat_id, u).mm
      m2 == clear_current_chat_memory(m1).mm
  IN  IF chat_messages = <<>>
      THEN [mm |-> m2, val |-> TRUE]
      ELSE LET r == SaveAll(m2, recent_pairs(message_pairs(chat_messages)), 0)
           IN  [mm |-> r.mm, val |-> TRUE]
load_chat_messages_from_history(mm, chat_id, chat_messages, u) ==
  LET m1 == switch_to_chat(mm, chat_id, u).mm
      m2 == clear_current_chat_memory(m1).mm
  IN  IF chat_messages = <<>>
      THEN [mm |-> m2, val |-> TRUE]
      ELSE LET r == SaveAll(m2, recent_pairs(message_pairs(chat_messages)), 0)
           IN  [mm |-> r.mm, val |-> r.val > 0]

----------------------------------------------------------------------------
(* The calls a client of the manager makes *)

\* ids a caller can pass: its own, one a call returned, or none
CallerIds == ChatIds \cup minted \cup Falsy

\* what uuid.uuid4() can return in a call that creates a memory for chat_id
Fresh(chat_id) == IF chat_id \in Falsy THEN UuidPool \ minted ELSE {NoUuid}
FreshIfAbsent(chat_id) ==
  IF chat_id \in DOMAIN chat_memories THEN {NoUuid} ELSE Fresh(chat_id)

Minted(u) == IF u = NoUuid THEN minted ELSE minted \cup {u}

Becomes(mm) ==
  /\ chat_memories' = mm.mem
  /\ current_chat_id' = mm.cur
  /\ committed' = mm.log
  /\ focus_lost' = mm.lost

CallCreate(chat_id) ==
  \E u \in Fresh(chat_id) :
    LET r == create_new_chat_memory(MM, chat_id, u)
    IN  /\ Becomes(r.mm)
        /\ minted' = Minted(u)
        /\ ret' = [op |-> "create_new_chat_memory", val |-> r.val]
        /\ UNCHANGED <<transcript, auxvars, pqvars>>

CallSwitch(chat_id) ==
  \E u \in FreshIfAbsent(chat_id) :
    LET r == switch_to_chat(MM, chat_id, u)
    IN  /\ Becomes(r.mm)
        /\ minted' = Minted(u)
        /\ ret' = [op |-> "switch_to_chat", val |-> r.val]
        /\ UNCHANGED <<transcript, auxvars, pqvars>>

\* the texts of the n-th exchange of a conversation
Question(n) == <<1, n>>
Answer(n) == <<2, n>>

\* the number of the exchange a client saves next
NextExchange == IF HasCurrentMemory(MM) THEN Len(committed[current_chat_id]) + 1 ELSE 1

\* save_context called by a client
CallSave ==
  /\ NextExchange <= MaxCommits
  /\ LET r == save_context(MM, Question(NextExchange), Answer(NextExchange))
     IN  /\ Becomes(r.mm)
         /\ ret' = [op |-> "save_context", val |-> r.val]
  /\ UNCHANGED <<minted, transcript, auxvars, pqvars>>

CallRead ==
  /\ ret' = [op |-> "load_memory_variables", val |-> load_memory_variables(MM)]
  /\ UNCHANGED <<mmvars, transcript, auxvars, pqvars>>

CallClear ==
  LET r == clear_current_chat_memory(MM)
  IN  /\ Becomes(r.mm)
      /\ ret' = [op |-> "clear_current_chat_memory", val |-> r.val]
      /\ UNCHANGED <<minted, transcript, auxvars, pqvars>>

CallDelete(chat_id) ==
  LET r == delete_chat_memory(MM, chat_id)
  IN  /\ Becomes(r.mm)
      /\ ret' = [op |-> "delete_chat_memory", val |-> r.val]
      /\ UNCHANGED <<minted, transcript, auxvars, pqvars>>

\* rehydration from a transcript the caller fetched
CallLoad(chat_id, t) ==
  \E u \in FreshIfAbsent(chat_id) :
    LET r == load_chat_messages_from_history(MM, chat_id, t, u)
    IN  /\ Becomes(r.mm)
        /\ minted' = Minted(u)
        /\ ret' = [op |-> "load_chat_messages_from_history", val |-> r.val]
        /\ UNCHANGED <<transcript, auxvars, pqvars>>

NoCall == [op |-> "none", val |-> FALSE]

\* no documents retrieved, an empty chat history file, nothing deleted
NoAux ==
  /\ documents = <<>>
  /\ chat_data = <<>>
  /\ deleted = {}

\* a process_query call that has not been made.  Beside the generator's
\* locals the record keeps what the call did: the fragments it yielded
\* (out), the fault the stream raised, whether more than 60 s have passed
\* since start_time (expired), whether the loop was left at line 244
\* (timed_out), how often it called the retriever, the completion stream and
\* _initialize_chain, what went wrong in get_context_and_history (rfault),
\* and how many empty chunks of the stream it passed over (skipped)
IdleGen ==
  [pc |-> "idle", query |-> <<>>, chat_id |-> None, processed_query |-> <<>>,
   context |-> "none", history |-> <<>>, full_response |-> <<>>, chunk_count |-> 0,
   out |-> <<>>, saved |-> "no", fault |-> <<>>, expired |-> FALSE, timed_out |-> FALSE,
   retrievals |-> 0, generations |-> 0, reinits |-> 0, rfault |-> "none", skipped |-> 0]

\* RAGEngine.__init__ with the vector store available, no call made
NoQueries ==
  /\ chain = TRUE
  /\ store_ok = TRUE
  /\ gens = [g \in Gens |-> IdleGen]

\* ChatMemoryManager.__init__
Init ==
  /\ chat_memories = <<>>
  /\ current_chat_id = None
  /\ minted = {}
  /\ committed = <<>>
  /\ focus_lost = FALSE
  /\ ret = NoCall
  /\ transcript = <<>>
  /\ NoQueries
  /\ NoAux

Next ==
  \/ \E id \in CallerIds : CallCreate(id)
  \/ \E id \in CallerIds : CallSwitch(id)
  \/ CallSave
  \/ CallRead
  \/ CallClear
  \/ \E id \in CallerIds : CallDelete(id)
  \/ \E id \in CallerIds : \E t \in SmallTranscripts : CallLoad(id, t)

Spec == Init /\ [][Next]_vars

----------------------------------------------------------------------------
(* Rehydration of a stored transcript: the store holds any transcript of   *)
(* at most MaxMsgs messages, at most MaxBad of them malformed.             *)

\* rehydration from the stored transcript (ui/pages/chatbot.py, _handle_chat_switching)
CallLoadStored(chat_id) ==
  \E u \in FreshIfAbsent(chat_id) :
    LET r == load_chat_messages_from_history(MM, chat_id, transcript, u)
    IN  /\ Becomes(r.mm)
        /\ minted' = Minted(u)
        /\ ret' = [op |-> "load_chat_messages_from_history", val |-> r.val]
        /\ UNCHANGED <<transcript, auxvars, pqvars>>

InitLoad ==
  /\ chat_memories = <<>>
  /\ current_chat_id = None
  /\ minted = {}
  /\ committed = <<>>
  /\ focus_lost = FALSE
  /\ ret = NoCall
  /\ NoQueries
  /\ NoAux
  /\ \E n \in 0..MaxMsgs : \E bad \in BadChoices(n) : transcript = TranscriptOf(n, bad)

\* the chat the stored transcript belongs to, or no id
LoadIds == {"A", None}

NextLoad ==
  \/ \E id \in LoadIds : CallLoadStored(id)
  \/ CallRead

SpecLoad == InitLoad /\ [][NextLoad]_vars

----------------------------------------------------------------------------
(* Properties of the memory isolation layer, checked under Spec *)

\* the step is the named call (the call recorded in ret' says which)
IsCreate(id) == ret'.op = "create_new_chat_memory" /\ CallCreate(id)
IsDelete(id) == ret'.op = "delete_chat_memory" /\ CallDelete(id)
IsSave == ret'.op = "save_context" /\ CallSave

\* what a memory shows: memory.load_memory_variables({})["history"]
Buffer(id) == MemHistory(chat_memories[id])

\* the last Min(n, w) elements of a log of n pairs, oldest first
LastCommitted(log, w) ==
  LET n == Len(log)
      m == Min(n, w)
  IN  [i \in 1..m |-> log[n - m + i]]

\* C1: whatever calls are made, the buffer of every chat never holds more
\* than window_size (human, assistant) pairs.
C1_BufferBounded ==
  /\ \A id \in DOMAIN chat_memories : Len(Buffer(id)) <= window_size
  /\ ret.op = "load_memory_variables" => Len(ret.val) <= window_size

\* a chat that took more than window_size saves and shows window_size pairs
C1_Witness ==
  \E id \in DOMAIN chat_memories :
    Len(committed[id]) > window_size /\ Len(Buffer(id)) = window_size

\* C2: after n saves into a focused chat whose buffer started empty, a read
\* returns the last Min(n, window_size) saved pairs, oldest first.
C2_ReadReturnsLastPairs ==
  (ret.op = "load_memory_variables" /\ HasCurrentMemory(MM))
    => ret.val = LastCommitted(committed[current_chat_id], window_size)

\* a read after window_size + 1 saves: the first pair is gone, the second leads
C2_Witness ==
  /\ ret.op = "load_memory_variables"
  /\ HasCurrentMemory(MM)
  /\ Len(committed[current_chat_id]) = window_size + 1
  /\ Len(ret.val) = window_size
  /\ ret.val[1] = committed[current_chat_id][2]
  /\ ret.val[window_size] = committed[current_chat_id][window_size + 1]

\* C7: create_new_chat_memory leaves the buffer of an id that has one
\* unchanged, allocates an empty buffer only for an id without one, and
\* with no id mints an id that is not in the registry.
C7_CreateKeepsExisting ==
  [][\A id \in CallerIds :
       IsCreate(id) =>
         /\ id \in DOMAIN chat_memories => chat_memories'[id] = chat_memories[id]
         /\ (id \notin Falsy /\ id \notin DOMAIN chat_memories)
              => chat_memories'[id] = NewMemory
         /\ id \in Falsy
              => /\ ret'.val \notin DOMAIN chat_memories
                 /\ chat_memories'[ret'.val] = NewMemory
         /\ \A x \in DOMAIN chat_memories : x # id => chat_memories'[x] = chat_memories[x]
    ]_vars

\* C8: deleting the focused chat removes its buffer and clears the focus;
\* until a chat is focused again every read returns an empty history and
\* every save returns failure.
C8_DeleteFocused ==
  /\ [][\A id \in CallerIds :
          (IsDelete(id) /\ id = current_chat_id /\ id \in DOMAIN chat_memories)
            => /\ id \notin DOMAIN chat_memories'
               /\ current_chat_id' = None
               /\ focus_lost'
               /\ ret'.val = TRUE
       ]_vars
  /\ [](focus_lost =>
          /\ current_chat_id = None
          /\ ret.op = "load_memory_variables" => ret.val = <<>>
          /\ ret.op = "save_context" => ret.val = FALSE)

\* a read made after the focused chat was deleted
C8_Witness ==
  focus_lost /\ ret.op = "load_memory_variables" /\ DOMAIN chat_memories # {}

\* a save attempted after the focused chat was deleted
C8_WitnessSave ==
  focus_lost /\ ret.op = "save_context" /\ DOMAIN chat_memories # {}

\* C9: deleting an id that has no buffer returns failure and changes
\* neither a buffer nor the focus; after any delete the id has no buffer,
\* so a second delete of it is such a call.
C9_DeleteAbsent ==
  [][\A id \in CallerIds :
       IsDelete(id) =>
         /\ id \notin DOMAIN chat_memories'
         /\ id \notin DOMAIN chat_memories
              => /\ ret'.val = FALSE
                 /\ chat_memories' = chat_memories
                 /\ current_chat_id' = current_chat_id
    ]_vars

\* a failed delete while another chat is focused and holds pairs
C9_Witness ==
  /\ ret.op = "delete_chat_memory" /\ ret.val = FALSE
  /\ HasCurrentMemory(MM) /\ Len(Buffer(current_chat_id)) > 0

\* C10: save_context with no focused chat returns failure, changes no
\* buffer and creates none.
C10_SaveWithoutFocus ==
  [][(IsSave /\ current_chat_id \in Falsy)
       => /\ ret'.val = FALSE
          /\ chat_memories' = chat_memories
          /\ current_chat_id' = current_chat_id
    ]_vars

\* a failed save while the registry holds a chat with pairs
C10_Witness ==
  /\ ret.op = "save_context" /\ ret.val = FALSE
  /\ current_chat_id \in Falsy
  /\ \E id \in DOMAIN chat_memories : Len(Buffer(id)) > 0

IsSwitch(id) == ret'.op = "switch_to_chat" /\ CallSwitch(id)
IsClear == ret'.op = "clear_current_chat_memory" /\ CallClear
IsLoad(id, t) == ret'.op = "load_chat_messages_from_history" /\ CallLoad(id, t)

\* every pair of msgs is a (user content, assistant content) pair of t
OnlyPairsOf(msgs, t) ==
  \A i \in 1..Len(msgs) :
    \E j \in 1..(Len(t) \div 2) :
      /\ "content" \in DOMAIN t[2 * j - 1] /\ "content" \in DOMAIN t[2 * j]
      /\ msgs[i] = <<t[2 * j - 1].content, t[2 * j].content>>

\* what rehydrating id from t leaves for id in a manager that held nothing
FromScratch(id, t) ==
  load_chat_messages_from_history(
    [mem |-> <<>>, cur |-> None, log |-> <<>>, lost |-> FALSE], id, t, NoUuid).mm.mem[id]

\* C22: after rehydrating session s from transcript t, s is focused and its
\* buffer holds only pairs of t, whatever it held before (so a second
\* rehydration leaves what the first left); no other session's buffer changes.
C22_RehydrateReplaces ==
  [][\A id \in CallerIds : \A t \in SmallTranscripts :
       IsLoad(id, t) =>
         /\ current_chat_id' = id
         /\ id \in DOMAIN chat_memories'
         /\ OnlyPairsOf(chat_memories'[id].msgs, t)
         /\ chat_memories'[id] = FromScratch(id, t)
         /\ \A x \in DOMAIN chat_memories :
              x # id => /\ x \in DOMAIN chat_memories'
                        /\ chat_memories'[x] = chat_memories[x]
    ]_vars

\* C23: whatever calls are made, the focus pointer is none or an id that
\* has a buffer in the registry.
C23_FocusHasBuffer ==
  current_chat_id = None \/ current_chat_id \in DOMAIN chat_memories

\* C24: switch_to_chat(s) focuses s, allocates an empty buffer for s only
\* when s has none, returns success and leaves every existing buffer as it was.
C24_SwitchFocuses ==
  [][\A id \in CallerIds :
       IsSwitch(id) =>
         /\ current_chat_id' = id
         /\ ret'.val = TRUE
         /\ DOMAIN chat_memories' = DOMAIN chat_memories \cup {id}
         /\ id \notin DOMAIN chat_memories => chat_memories'[id] = NewMemory
         /\ \A x \in DOMAIN chat_memories : chat_memories'[x] = chat_memories[x]
    ]_vars

\* C25: save_context and clear_current_chat_memory change the focused
\* chat's buffer only: the focus, the registered ids, every capacity and
\* every other buffer stay; after a reset the focused buffer is empty.
C25_SaveAndResetLocal ==
  [][(IsSave \/ IsClear) =>
       /\ current_chat_id' = current_chat_id
       /\ DOMAIN chat_memories' = DOMAIN chat_memories
       /\ \A x \in DOMAIN chat_memories :
            /\ chat_memories'[x].k = chat_memories[x].k
            /\ x # current_chat_id => chat_memories'[x] = chat_memories[x]
       /\ (IsClear /\ HasCurrentMemory(MM)) =>
            /\ ret'.val = TRUE
            /\ chat_memories'[current_chat_id].msgs = <<>>
    ]_vars

\* a reset that emptied the focused buffer while another chat holds pairs
C25_Witness ==
  /\ ret.op = "clear_current_chat_memory" /\ ret.val = TRUE
  /\ HasCurrentMemory(MM) /\ Buffer(current_chat_id) = <<>>
  /\ \E x \in DOMAIN chat_memories : x # current_chat_id /\ Len(Buffer(x)) > 0

\* a save into the focused chat while another chat holds other pairs
C25_WitnessSave ==
  /\ ret.op = "save_context" /\ ret.val = TRUE
  /\ \E x \in DOMAIN chat_memories :
       /\ x # current_chat_id
       /\ Len(Buffer(x)) > 0
       /\ Len(Buffer(x)) # Len(Buffer(current_chat_id))

----------------------------------------------------------------------------
(* Properties of rehydration, checked under SpecLoad *)

\* the last call rehydrated chat "A" from the stored transcript
Rehydrated ==
  ret.op = "load_chat_messages_from_history" /\ current_chat_id \in ChatIds

\* a message carries the role tag and a non-empty content
WellFormed(msg, role) ==
  /\ "role" \in DOMAIN msg /\ msg.role = role
  /\ "content" \in DOMAIN msg /\ Len(msg.content) > 0

\* the j-th pair of a transcript: its messages 2j - 1 and 2j
NPairs(t) == Len(t) \div 2
WellFormedPair(t, j) ==
  WellFormed(t[2 * j - 1], "user") /\ WellFormed(t[2 * j], "Virtual Assistant")

\* the contents of the well-formed pairs of a transcript, in transcript order
WellFormedPairs(t) ==
  LET Keep(j) == WellFormedPair(t, j)
      js == SelectSeq([j \in 1..NPairs(t) |-> j], Keep)
  IN  [i \in 1..Len(js) |-> <<t[2 * js[i] - 1].content, t[2 * js[i]].content>>]

\* C4: rehydration from N > window_size well-formed pairs leaves exactly
\* the most recent window_size pairs in the buffer, oldest first.
C4_RehydrateKeepsWindow ==
  (/\ Rehydrated
   /\ Len(transcript) = 2 * NPairs(transcript)
   /\ \A j \in 1..NPairs(transcript) : WellFormedPair(transcript, j)
   /\ NPairs(transcript) > window_size)
    => Buffer(current_chat_id) = LastCommitted(WellFormedPairs(transcript), window_size)

\* C5: when a transcript holds a malformed pair only that pair is dropped:
\* the buffer holds the well-formed pairs before and after it, the most
\* recent window_size of them, in transcript order.
C5_OnlyMalformedPairDropped ==
  (/\ Rehydrated
   /\ \E j \in 1..NPairs(transcript) : ~WellFormedPair(transcript, j))
    => Buffer(current_chat_id) = LastCommitted(WellFormedPairs(transcript), window_size)

C6_WitnessLoaded ==
  /\ Rehydrated
  /\ \E j \in 1..NPairs(transcript) : ~WellFormedPair(transcript, j)
  /\ ret.val = TRUE
  /\ Len(Buffer(current_chat_id)) > 0

\* a transcript as the session store holds it: messages with the roles
\* "user" and "assistant" in turn, each with a non-empty content
StoreFormat(t) ==
  /\ Len(t) >= 2
  /\ \A n \in 1..Len(t) :
       WellFormed(t[n], IF n % 2 = 1 THEN "user" ELSE "assistant")

\* C21: rehydration accepts a transcript in the session store's format:
\* each of its (user, assistant) pairs is valid, so the call succeeds and
\* the buffer ends with the transcript's last pair.
C21_StoreFormatAccepted ==
  (Rehydrated /\ StoreFormat(transcript)) =>
    /\ ret.val = TRUE
    /\ Len(Buffer(current_chat_id)) >= 1
    /\ Buffer(current_chat_id)[Len(Buffer(current_chat_id))]
         = <<transcript[2 * NPairs(transcript) - 1].content,
             transcript[2 * NPairs(transcript)].content>>

----------------------------------------------------------------------------
(* The query orchestration pipeline: RAGEngine.process_query is a          *)
(* generator; a step runs it from one suspension point to the next.        *)

\* len(query) > 2000
max_query_length == 2000

\* str.strip()
RECURSIVE StripLeft(_)
StripLeft(t) == IF t # <<>> /\ Head(t) = 0 THEN StripLeft(Tail(t)) ELSE t
RECURSIVE StripRight(_)
StripRight(t) ==
  IF t # <<>> /\ t[Len(t)] = 0 THEN StripRight(SubSeq(t, 1, Len(t) - 1)) ELSE t
Strip(t) == StripRight(StripLeft(t))

\* _validate_query(query)
validate_query_NoBlankCheck(query) ==
  IF Len(query) > max_query_length
  THEN [valid |-> FALSE, reason |-> "Query too long", processed_query |-> <<>>]
  ELSE [valid |-> TRUE, reason |-> "", processed_query |-> Strip(query)]
validate_query_NoLengthCheck(query) ==
  IF query = <<>> \/ Strip(query) = <<>>
  THEN [valid |-> FALSE, reason |-> "Empty query", processed_query |-> <<>>]
  ELSE [valid |-> TRUE, reason |-> "", processed_query |-> Strip(query)]
validate_query(query) ==
  IF query = <<>> \/ Strip(query) = <<>>
  THEN [valid |-> FALSE, reason |-> "Empty query", processed_query |-> <<>>]
  ELSE IF Len(Strip(query)) < 1
  THEN [valid |-> FALSE, reason |-> "Query too short", processed_query |-> <<>>]
  ELSE IF Len(query) > max_query_length
  THEN [valid |-> FALSE, reason |-> "Query too long", processed_query |-> <<>>]
  ELSE [valid |-> TRUE, reason |-> "", processed_query |-> Strip(query)]

\* the fixed texts process_query yields; each is a one-character text of
\* its own, none of them blank
InvalidMsg(reason) ==
  CASE reason = "Empty query"     -> <<101>>
    [] reason = "Query too short" -> <<102>>
    [] reason = "Query too long"  -> <<103>>
UnavailableMsg == <<104>>
RateLimitMsg == <<105>>
TimeoutMsg == <<106>>
ContextMsg == <<107>>
GenericMsg == <<108>>

\* characters of a fault text: 0 is the blank, 1..26 the letters a..z,
\* 201..226 the capitals A..Z
Upper(t) == [i \in 1..Len(t) |-> IF t[i] \in 1..26 THEN t[i] + 200 ELSE t[i]]

\* str.lower()
Lower(t) == [i \in 1..Len(t) |-> IF t[i] \in 201..226 THEN t[i] - 200 ELSE t[i]]

\* the substrings the except branch looks for: "rate limit", "timeout", "context"
RateLimitKey == <<18, 1, 20, 5, 0, 12, 9, 13, 9, 20>>
TimeoutKey == <<20, 9, 13, 5, 15, 21, 20>>
ContextKey == <<3, 15, 14, 20, 5, 24, 20>>

\* t starts with key
StartsWith(t, key) == Len(key) <= Len(t) /\ SubSeq(t, 1, Len(key)) = key

\* python's "key in t" for strings
RECURSIVE Contains(_, _)
Contains(t, key) ==
  IF StartsWith(t, key) THEN TRUE
  ELSE IF t = <<>> THEN FALSE
  ELSE Contains(Tail(t), key)

\* the except branch of lines 263-276: the message yielded for the fault
\* whose text str(e) is e
ErrorMsg_TimeoutFirst(e) ==
  IF Contains(Lower(e), TimeoutKey) THEN TimeoutMsg
  ELSE IF Contains(Lower(e), RateLimitKey) THEN RateLimitMsg
  ELSE IF Contains(Lower(e), ContextKey) THEN ContextMsg
  ELSE GenericMsg
ErrorMsg(e) ==
  IF Contains(Lower(e), RateLimitKey) THEN RateLimitMsg
  ELSE IF Contains(Lower(e), TimeoutKey) THEN TimeoutMsg
  ELSE IF Contains(Lower(e), ContextKey) THEN ContextMsg
  ELSE GenericMsg

\* _ensure_chain_availability(): the chain after the one attempt to recreate it
EnsuredChain_Unchecked == TRUE
EnsuredChain_NoRetry == chain
EnsuredChain == IF chain THEN TRUE ELSE store_ok

\* how often _ensure_chain_availability calls _initialize_chain
ReinitAttempts == IF chain THEN 0 ELSE 1

\* what the completion stream does when asked for its next chunk: it
\* delivers some empty chunks (empties) and then a non-empty chunk, the end,
\* or a fault with its text; slow says that the wait takes the call past
\* 60 s since start_time
StreamOutcomes(chunks, faults, slows) ==
  {[kind |-> "chunk", text |-> c, slow |-> sl, empties |-> 0] : c \in chunks, sl \in slows}
  \cup {[kind |-> "end", text |-> <<>>, slow |-> sl, empties |-> 0] : sl \in slows}
  \cup {[kind |-> "fault", text |-> e, slow |-> sl, empties |-> 0] : e \in faults, sl \in slows}

\* the same outcomes, each after n empty chunks, n in ns
EmptyChunksFirst(outcomes, ns) ==
  {[o EXCEPT !.empties = n] : o \in outcomes, n \in ns}

\* lines 246-261: the commit that ends a call; gen is the call's record
\* with its final full_response
Commit_AlwaysSave(mm, gen) ==
  LET r == save_context(mm, gen.processed_query, gen.full_response)
  IN  [mm |-> r.mm,
       gen |-> [gen EXCEPT !.pc = "done", !.saved = IF r.val THEN "ok" ELSE "failed"]]
Commit_SkipDegraded(mm, gen) ==
  IF Strip(gen.full_response) # <<>> /\ gen.context = "assembled"
  THEN LET r == save_context(mm, gen.processed_query, gen.full_response)
       IN  [mm |-> r.mm,
            gen |-> [gen EXCEPT !.pc = "done", !.saved = IF r.val THEN "ok" ELSE "failed"]]
  ELSE [mm |-> mm, gen |-> [gen EXCEPT !.pc = "done", !.saved = "skipped"]]
Commit_ErrorOnFailure(mm, gen) ==
  IF Strip(gen.full_response) # <<>>
  THEN LET r == save_context(mm, gen.processed_query, gen.full_response)
       IN  IF r.val
           THEN [mm |-> r.mm, gen |-> [gen EXCEPT !.pc = "done", !.saved = "ok"]]
           ELSE [mm |-> r.mm,
                 gen |-> [gen EXCEPT !.pc = "yield error", !.saved = "failed",
                                     !.out = Append(@, GenericMsg)]]
  ELSE [mm |-> mm, gen |-> [gen EXCEPT !.pc = "done", !.saved = "skipped"]]
Commit(mm, gen) ==
  IF Strip(gen.full_response) # <<>>
  THEN LET r == save_context(mm, gen.processed_query, gen.full_response)
       IN  [mm |-> r.mm,
            gen |-> [gen EXCEPT !.pc = "done", !.saved = IF r.val THEN "ok" ELSE "failed"]]
  ELSE [mm |-> mm, gen |-> [gen EXCEPT !.pc = "done", !.saved = "skipped"]]

\* lines 235-244 and 263-276: one request to the stream and what the
\* generator does with its outcome o; the empty chunks that come first fail
\* the test "if chunk" of line 236 and are only counted in skipped
Pull_SaveEachChunk(mm, gen, o) ==
  LET g1 == [gen EXCEPT !.expired = @ \/ o.slow, !.skipped = @ + o.empties]
  IN  CASE o.kind = "chunk" ->
             [mm |-> save_context(mm, gen.processed_query, gen.full_response \o o.text).mm,
              gen |-> [g1 EXCEPT !.pc = "yield chunk",
                                 !.full_response = @ \o o.text,
                                 !.chunk_count = @ + 1,
                                 !.out = Append(@, o.text)]]
        [] o.kind = "end" -> Commit(mm, g1)
        [] o.kind = "fault" ->
             [mm |-> mm,
              gen |-> [g1 EXCEPT !.pc = "yield error", !.fault = o.text,
                                 !.out = Append(@, ErrorMsg(o.text))]]
Pull_CommitOnFault(mm, gen, o) ==
  LET g1 == [gen EXCEPT !.expired = @ \/ o.slow, !.skipped = @ + o.empties]
  IN  CASE o.kind = "chunk" ->
             [mm |-> mm,
              gen |-> [g1 EXCEPT !.pc = "yield chunk",
                                 !.full_response = @ \o o.text,
                                 !.chunk_count = @ + 1,
                                 !.out = Append(@, o.text)]]
        [] o.kind = "end" -> Commit(mm, g1)
        [] o.kind = "fault" ->
             [mm |-> Commit(mm, g1).mm,
              gen |-> [Commit(mm, g1).gen EXCEPT !.pc = "yield error", !.fault = o.text,
                                                 !.out = Append(@, ErrorMsg(o.text))]]
Pull_ForwardEmpty(mm, gen, o) ==
  LET g1 == [gen EXCEPT !.expired = @ \/ o.slow, !.skipped = @ + o.empties]
  IN  IF o.empties > 0
      THEN [mm |-> mm,
            gen |-> [g1 EXCEPT !.pc = "yield chunk",
                               !.chunk_count = @ + 1,
                               !.out = Append(@, <<>>)]]
      ELSE CASE o.kind = "chunk" ->
                  [mm |-> mm,
                   gen |-> [g1 EXCEPT !.pc = "yield chunk",
                                      !.full_response = @ \o o.text,
                                      !.chunk_count = @ + 1,
                                      !.out = Append(@, o.text)]]
             [] o.kind = "end" -> Commit(mm, g1)
             [] o.kind = "fault" ->
                  [mm |-> mm,
                   gen |-> [g1 EXCEPT !.pc = "yield error", !.fault = o.text,
                                      !.out = Append(@, ErrorMsg(o.text))]]
Pull(mm, gen, o) ==
  LET g1 == [gen EXCEPT !.expired = @ \/ o.slow, !.skipped = @ + o.empties]
  IN  CASE o.kind = "chunk" ->
             [mm |-> mm,
              gen |-> [g1 EXCEPT !.pc = "yield chunk",
                                 !.full_response = @ \o o.text,
                                 !.chunk_count = @ + 1,
                                 !.out = Append(@, o.text)]]
        [] o.kind = "end" -> Commit(mm, g1)
        [] o.kind = "fault" ->
             [mm |-> mm,
              gen |-> [g1 EXCEPT !.pc = "yield error", !.fault = o.text,
                                 !.out = Append(@, ErrorMsg(o.text))]]

\* lines 242-244, reached when the generator is resumed after a chunk: the
\* loop is left when more than 60 s have passed since start_time
TimeoutBreak_Never(gen, late) == FALSE
TimeoutBreak(gen, late) == gen.expired \/ late

\* process_query(query, chat_id) is called: the generator g exists, none of
\* its code has run
CallProcessQuery(g, query, chat_id) ==
  /\ gens[g].pc = "idle"
  /\ gens' = [gens EXCEPT ![g] = [IdleGen EXCEPT !.pc = "start", !.query = query,
                                                 !.chat_id = chat_id]]
  /\ UNCHANGED <<mmvars, ret, transcript, auxvars, chain, store_ok>>

\* what can go wrong before the prompt is composed: nothing,
\* retriever.invoke raises (caught at line 150), or the context assembly
\* raises (caught inside _get_enhanced_context, line 89)
RetrievalFaults == {"none", "retriever", "assembly"}

\* get_context_and_history(x), lines 126-158: the context is "assembled"
\* from the documents or one of the two fixed error texts; the switch and
\* the read of the history are reached unless retriever.invoke raised
get_context_and_history(mm, chat_id, fault) ==
  IF fault = "retriever"
  THEN [mm |-> mm, context |-> "retrieval error", history |-> <<>>]
  ELSE LET m == IF chat_id \notin Falsy
                THEN switch_to_chat(mm, chat_id, NoUuid).mm ELSE mm
       IN  [mm |-> m,
            context |-> IF fault = "assembly" THEN "assembly error" ELSE "assembled",
            history |-> load_memory_variables(m)]

\* the first next(g): lines 203-239, to the first yield or to the end.
\* fault: what goes wrong in get_context_and_history; o: what the stream
\* does next
PQStart(g, fault, o) ==
  /\ gens[g].pc = "start"
  /\ LET gen == gens[g]
         v == validate_query(gen.query)
         m1 == IF gen.chat_id \notin Falsy
               THEN switch_to_chat(MM, gen.chat_id, NoUuid).mm ELSE MM
         x == get_context_and_history(m1, gen.chat_id, fault)
         g1 == [gen EXCEPT !.processed_query = v.processed_query,
                           !.reinits = ReinitAttempts,
                           !.retrievals = 1,
                           !.generations = 1,
                           !.rfault = fault,
                           !.context = x.context,
                           !.history = x.history]
         r == Pull(x.mm, g1, o)
     IN  IF ~v.valid
         THEN /\ gens' = [gens EXCEPT ![g] = [gen EXCEPT !.pc = "yield invalid",
                                                !.out = <<InvalidMsg(v.reason)>>]]
              /\ UNCHANGED <<mmvars, chain>>
         ELSE IF ~EnsuredChain
         THEN /\ gens' = [gens EXCEPT ![g] = [gen EXCEPT !.pc = "yield unavailable",
                                                !.processed_query = v.processed_query,
                                                !.reinits = ReinitAttempts,
                                                !.out = <<UnavailableMsg>>]]
              /\ Becomes(m1)
              /\ chain' = FALSE
              /\ UNCHANGED minted
         ELSE /\ gens' = [gens EXCEPT ![g] = r.gen]
              /\ Becomes(r.mm)
              /\ chain' = TRUE
              /\ UNCHANGED minted
  /\ UNCHANGED <<ret, transcript, auxvars, store_ok>>

\* a later next(g) after a chunk was yielded: the timeout check of lines
\* 242-244 (late: the 60 s ran out while the generator was suspended),
\* then the stream
PQResume(g, late, o) ==
  /\ gens[g].pc = "yield chunk"
  /\ LET r == IF TimeoutBreak(gens[g], late)
              THEN Commit(MM, [gens[g] EXCEPT !.expired = TRUE, !.timed_out = TRUE])
              ELSE Pull(MM, gens[g], o)
     IN  /\ gens' = [gens EXCEPT ![g] = r.gen]
         /\ Becomes(r.mm)
  /\ UNCHANGED <<minted, ret, transcript, auxvars, chain, store_ok>>

\* next(g) after a message was yielded at line 211, 225 or 270-276: the
\* generator returns
PQFinish(g) ==
  /\ gens[g].pc \in {"yield invalid", "yield unavailable", "yield error"}
  /\ gens' = [gens EXCEPT ![g].pc = "done"]
  /\ UNCHANGED <<mmvars, ret, transcript, auxvars, chain, store_ok>>

\* the caller asks the generator g for its next fragment; faults is what
\* can go wrong in retrieval, outcomes what the stream can do, lates whether
\* the caller can let the 60 s run out
PQStep(g, faults, outcomes, lates) ==
  \/ \E fault \in faults : \E o \in outcomes :
       /\ o.kind = "chunk" => gens[g].chunk_count < MaxChunks
       /\ PQStart(g, fault, o)
  \/ \E late \in lates : \E o \in outcomes :
       /\ o.kind = "chunk" => gens[g].chunk_count < MaxChunks
       /\ PQResume(g, late, o)
  \/ PQFinish(g)

\* the query of the g-th call: a text of its own with a blank in front
QueryOf(g) == <<0, g>>

\* the chunk of the completion stream in SpecPQ
PQChunks == {<<9>>}

\* the fault of the completion stream in SpecPQ: "oops"
PQFaults == {<<15, 15, 16, 19>>}

\* RAGEngine.__init__: the chain exists if the vector store was available
InitPQ ==
  /\ chat_memories = <<>>
  /\ current_chat_id = None
  /\ minted = {}
  /\ committed = <<>>
  /\ focus_lost = FALSE
  /\ ret = NoCall
  /\ transcript = <<>>
  /\ store_ok \in BOOLEAN
  /\ chain = store_ok
  /\ gens = [g \in Gens |-> IdleGen]
  /\ NoAux

NextPQ ==
  \/ \E g \in Gens : \E id \in ChatIds \cup {None} : CallProcessQuery(g, QueryOf(g), id)
  \/ \E g \in Gens : PQStep(g, {"none", "retriever"},
                           StreamOutcomes(PQChunks, PQFaults, {FALSE}), {FALSE})
  \/ \E id \in ChatIds : CallSwitch(id)
  \/ \E id \in ChatIds : CallLoad(id, <<Good(1), Good(2)>>)

SpecPQ == InitPQ /\ [][NextPQ]_vars

----------------------------------------------------------------------------
(* One process_query call with every kind of query, stream and backend,    *)
(* made between calls that move the focus and rehydrate buffers.           *)

\* get_chain_status(): the fields that depend on the engine and the manager
get_chain_status ==
  [chain_available |-> chain,
   memory_manager_active |-> current_chat_id # None,
   active_chats |-> Cardinality(DOMAIN chat_memories)]

\* the call is recorded with the registry, the focus and the chain it found
CallStatus ==
  /\ ret' = [op |-> "get_chain_status", val |-> get_chain_status,
             found |-> <<chat_memories, current_chat_id, chain>>]
  /\ UNCHANGED <<mmvars, transcript, auxvars, pqvars>>

\* the vector store becomes available: documents were loaded
StoreRecovers ==
  /\ ~store_ok
  /\ store_ok' = TRUE
  /\ UNCHANGED <<mmvars, ret, transcript, auxvars, chain, gens>>

\* a query of n non-blank characters
Long(n) == [i \in 1..n |-> 1]

\* the queries: empty, blank, padded with blanks, of the greatest length
\* accepted, one character longer
RunQueries ==
  {<<>>, <<0, 0>>, <<0, 7, 0>>, Long(max_query_length), Long(max_query_length + 1)}

\* the chunks of the completion stream: a non-blank one and a blank one
RunChunks == {<<9>>, <<0>>}

\* the texts of the faults of the completion stream: "Rate Limit",
\* "timeout rate limit", "TIMEOUT context", "Context", "ratelimit", "oops"
RunFaults ==
  {<<218, 1, 20, 5, 0, 212, 9, 13, 9, 20>>,
   TimeoutKey \o <<0>> \o RateLimitKey,
   Upper(TimeoutKey) \o <<0>> \o ContextKey,
   <<203, 15, 14, 20, 5, 24, 20>>,
   <<18, 1, 20, 5, 12, 9, 13, 9, 20>>,
   <<15, 15, 16, 19>>}

RunIds == {"A", None}

NextRun ==
  \/ \E query \in RunQueries : \E id \in RunIds : CallProcessQuery(1, query, id)
  \/ PQStep(1, RetrievalFaults, StreamOutcomes(RunChunks, RunFaults, BOOLEAN), BOOLEAN)
  \/ CallSwitch("B")
  \/ CallLoad("B", <<Good(1), Good(2)>>)
  \/ StoreRecovers

SpecRun == InitPQ /\ [][NextRun]_vars

----------------------------------------------------------------------------
(* One process_query call made while a client focuses, rehydrates and      *)
(* deletes chats between the requests for its fragments.                   *)

\* the transcript the store holds for a chat: one pair, its texts the chat's own
StoredPair(id) == IF id = "A" THEN <<Good(1), Good(2)>> ELSE <<Good(3), Good(4)>>

NextMix ==
  \/ \E id \in RunIds : CallProcessQuery(1, QueryOf(1), id)
  \/ PQStep(1, RetrievalFaults, StreamOutcomes(RunChunks, PQFaults, {FALSE}), BOOLEAN)
  \/ \E id \in ChatIds : CallSwitch(id)
  \/ \E id \in ChatIds : CallLoad(id, StoredPair(id))
  \/ \E id \in ChatIds : CallDelete(id)

SpecMix == InitPQ /\ [][NextMix]_vars

----------------------------------------------------------------------------
(* Two process_query calls with the same query for the same chat, on a     *)
(* stream that also delivers empty chunks, with a vector store that may    *)
(* become available between them.                                          *)

\* the query of both calls, padded with blanks
SameQuery == <<0, 7, 0>>

\* the chunks of the stream of the call g: the first call also gets a
\* chunk of blanks
TwoChunks(g) == IF g = 1 THEN RunChunks ELSE PQChunks

NextTwo ==
  \/ \E g \in Gens : CallProcessQuery(g, SameQuery, "A")
  \/ \E g \in Gens :
       PQStep(g, {"none"},
              EmptyChunksFirst(StreamOutcomes(TwoChunks(g), PQFaults, {FALSE}), 0..MaxEmpties),
              {FALSE})
  \/ StoreRecovers

\* chat "A" is focused and holds the n exchanges a client saved before
InitTwo ==
  /\ \E n \in {0, window_size - 1, window_size} :
       LET pairs == [i \in 1..n |-> <<Question(i), Answer(i)>>]
       IN  /\ chat_memories = [x \in {"A"} |-> [NewMemory EXCEPT !.msgs = pairs]]
           /\ committed = [x \in {"A"} |-> pairs]
  /\ current_chat_id = "A"
  /\ minted = {}
  /\ focus_lost = FALSE
  /\ ret = NoCall
  /\ transcript = <<>>
  /\ store_ok \in BOOLEAN
  /\ chain = store_ok
  /\ gens = [g \in Gens |-> IdleGen]
  /\ NoAux

SpecTwo == InitTwo /\ [][NextTwo]_vars

----------------------------------------------------------------------------
(* Context assembly: RAGEngine._get_enhanced_context.  A relevance score   *)
(* is a number of tenths: 3 stands for 0.3.                                *)

\* relevance_threshold = 0.3, in tenths
relevance_threshold == 3

\* max_docs
max_docs == 5

\* getattr(doc, 'relevance_score', 0.5): the default, in tenths
DefaultScore == 5

\* getattr(doc, 'relevance_score', 0.5)
Score(doc) == IF "relevance_score" \in DOMAIN doc THEN doc.relevance_score ELSE DefaultScore

\* sorted(documents, key = score, reverse = True): the sort is stable, a
\* document goes behind every document sorted so far whose score is not
\* smaller than its own
RECURSIVE InsertDesc(_, _)
InsertDesc(sorted, doc) ==
  IF sorted = <<>> THEN <<doc>>
  ELSE IF Score(Head(sorted)) >= Score(doc)
       THEN <<Head(sorted)>> \o InsertDesc(Tail(sorted), doc)
       ELSE <<doc>> \o sorted

\* the same with a document put before the documents of its own score
RECURSIVE InsertDescTiesFirst(_, _)
InsertDescTiesFirst(sorted, doc) ==
  IF sorted = <<>> THEN <<doc>>
  ELSE IF Score(Head(sorted)) > Score(doc)
       THEN <<Head(sorted)>> \o InsertDescTiesFirst(Tail(sorted), doc)
       ELSE <<doc>> \o sorted

RECURSIVE StableSortDescTiesFirst(_)
StableSortDescTiesFirst(docs) ==
  IF docs = <<>> THEN <<>>
  ELSE InsertDescTiesFirst(StableSortDescTiesFirst(SubSeq(docs, 1, Len(docs) - 1)),
                           docs[Len(docs)])
RECURSIVE StableSortDesc(_)
StableSortDesc(docs) ==
  IF docs = <<>> THEN <<>>
  ELSE InsertDesc(StableSortDesc(SubSeq(docs, 1, Len(docs) - 1)), docs[Len(docs)])

\* sorted_docs = sorted(documents, key = ..., reverse = True)
sorted_docs_TiesReversed(docs) == StableSortDescTiesFirst(docs)
sorted_docs(docs) == StableSortDesc(docs)

\* [doc for doc in sorted_docs if score >= relevance_threshold]
filtered_docs_Strict(sorted) ==
  LET Keep(doc) == Score(doc) > relevance_threshold
  IN  SelectSeq(sorted, Keep)
filtered_docs(sorted) ==
  LET Keep(doc) == Score(doc) >= relevance_threshold
  IN  SelectSeq(sorted, Keep)

\* filtered_docs[:max_docs]
selected_docs(filtered) == SubSeq(filtered, 1, Min(max_docs, Len(filtered)))

\* metadata.get('filename', f'Document {i}') and metadata.get('page', 'Unknown')
SourceOf(i, doc) ==
  IF "filename" \in DOMAIN doc.metadata THEN doc.metadata.filename ELSE <<"Document", i>>
PageOf(doc) == IF "page" \in DOMAIN doc.metadata THEN doc.metadata.page ELSE <<"Unknown">>

\* f"Source {i} (from {source}):\n{doc.page_content}"
FormattedContent(i, doc) ==
  [rank |-> i, source |-> SourceOf(i, doc), content |-> doc.page_content]

\* the fixed context texts
NoInformation == [kind |-> "no information found", parts |-> <<>>]
LowRelevance == [kind |-> "no highly relevant information", parts |-> <<>>]
ErrorContext == [kind |-> "error retrieving context", parts |-> <<>>]

\* the body of the loop of lines 71-79 raises for the document: its
\* metadata is not a dict (metadata.get, line 73) or it has no page_content
\* (line 75)
Raises(doc) == "not_a_dict" \in DOMAIN doc.metadata \/ "page_content" \notin DOMAIN doc

\* how many documents the loop handles before one raises
RECURSIVE HandledBeforeFault(_)
HandledBeforeFault(sel) ==
  IF sel = <<>> \/ Raises(Head(sel)) THEN 0 ELSE 1 + HandledBeforeFault(Tail(sel))

\* a relevance score as a fraction <<numerator, denominator>>; 0.0 is <<0, 1>>
Zero == <<0, 1>>

RECURSIVE total_relevance(_)
total_relevance(docs) ==
  IF docs = <<>> THEN 0 ELSE Score(Head(docs)) + total_relevance(Tail(docs))

\* _get_enhanced_context(documents, query, chat_id); the except branch of
\* lines 89-95 returns the error text when the loop raised
get_enhanced_context_OneText(docs) ==
  IF docs = <<>>
  THEN [context |-> NoInformation, sources |-> <<>>, relevance_score |-> Zero]
  ELSE LET sel == selected_docs(filtered_docs(sorted_docs(docs)))
           done == SubSeq(sel, 1, HandledBeforeFault(sel))
       IN  IF \E i \in 1..Len(sel) : Raises(sel[i])
           THEN [context |-> ErrorContext, sources |-> <<>>, relevance_score |-> Zero]
           ELSE [context |-> IF sel = <<>> THEN NoInformation
                             ELSE [kind |-> "sources",
                                   parts |-> [i \in 1..Len(sel) |->
                                                FormattedContent(i, sel[i])]],
                 sources |-> [i \in 1..Len(sel) |->
                                [source |-> SourceOf(i, sel[i]), page |-> PageOf(sel[i])]],
                 relevance_score |-> IF sel = <<>> THEN Zero
                                     ELSE <<total_relevance(sel), 10 * Len(sel)>>]
get_enhanced_context_Partial(docs) ==
  IF docs = <<>>
  THEN [context |-> NoInformation, sources |-> <<>>, relevance_score |-> Zero]
  ELSE LET sel == selected_docs(filtered_docs(sorted_docs(docs)))
           done == SubSeq(sel, 1, HandledBeforeFault(sel))
       IN  IF \E i \in 1..Len(sel) : Raises(sel[i])
           THEN [context |-> [kind |-> "sources",
                              parts |-> [i \in 1..Len(done) |->
                                           FormattedContent(i, done[i])]],
                 sources |-> [i \in 1..Len(done) |->
                                [source |-> SourceOf(i, done[i]), page |-> PageOf(done[i])]],
                 relevance_score |-> Zero]
           ELSE [context |-> IF sel = <<>> THEN LowRelevance
                             ELSE [kind |-> "sources",
                                   parts |-> [i \in 1..Len(sel) |->
                                                FormattedContent(i, sel[i])]],
                 sources |-> [i \in 1..Len(sel) |->
                                [source |-> SourceOf(i, sel[i]), page |-> PageOf(sel[i])]],
                 relevance_score |-> IF sel = <<>> THEN Zero
                                     ELSE <<total_relevance(sel), 10 * Len(sel)>>]
get_enhanced_context(docs) ==
  IF docs = <<>>
  THEN [context |-> NoInformation, sources |-> <<>>, relevance_score |-> Zero]
  ELSE LET sel == selected_docs(filtered_docs(sorted_docs(docs)))
           done == SubSeq(sel, 1, HandledBeforeFault(sel))
       IN  IF \E i \in 1..Len(sel) : Raises(sel[i])
           THEN [context |-> ErrorContext, sources |-> <<>>, relevance_score |-> Zero]
           ELSE [context |-> IF sel = <<>> THEN LowRelevance
                             ELSE [kind |-> "sources",
                                   parts |-> [i \in 1..Len(sel) |->
                                                FormattedContent(i, sel[i])]],
                 sources |-> [i \in 1..Len(sel) |->
                                [source |-> SourceOf(i, sel[i]), page |-> PageOf(sel[i])]],
                 relevance_score |-> IF sel = <<>> THEN Zero
                                     ELSE <<total_relevance(sel), 10 * Len(sel)>>]

\* the documents of the model: the n-th retrieved document has a content of
\* its own; it is scored 0.2, 0.3 or 0.9, or carries no score, no file name
\* and no page
DocKinds == {"0.2", "0.3", "0.9", "unscored"}
DocOf(n, kind) ==
  IF kind = "unscored"
  THEN [page_content |-> Txt(n), metadata |-> <<>>]
  ELSE [page_content |-> Txt(n),
        relevance_score |-> CASE kind = "0.2" -> 2 [] kind = "0.3" -> 3 [] kind = "0.9" -> 9,
        metadata |-> [filename |-> <<"file", n>>, page |-> <<"page", n>>]]

CallAssemble ==
  /\ ret.op = "none"
  /\ ret' = [op |-> "_get_enhanced_context", val |-> get_enhanced_context(documents)]
  /\ UNCHANGED <<mmvars, transcript, pqvars, documents, chat_data, deleted>>

\* the retriever returned any list of at most MaxDocs documents
InitCtx ==
  /\ chat_memories = <<>>
  /\ current_chat_id = None
  /\ minted = {}
  /\ committed = <<>>
  /\ focus_lost = FALSE
  /\ ret = NoCall
  /\ transcript = <<>>
  /\ NoQueries
  /\ chat_data = <<>>
  /\ deleted = {}
  /\ \E n \in 0..MaxDocs : \E kinds \in [1..n -> DocKinds] :
       documents = [i \in 1..n |-> DocOf(i, kinds[i])]

NextCtx == CallAssemble

SpecCtx == InitCtx /\ [][NextCtx]_vars

\* a document the loop cannot handle: it has no page_content and no score,
\* or no page_content and the score 0.2, or a metadata that is not a dict
\* and the score 0.9
FaultKinds == {"no content", "no content, 0.2", "bad metadata"}
FaultyDoc(n, kind) ==
  CASE kind = "no content" -> [metadata |-> <<>>]
    [] kind = "no content, 0.2" -> [relevance_score |-> 2, metadata |-> <<>>]
    [] kind = "bad metadata" ->
         [page_content |-> Txt(n), relevance_score |-> 9,
          metadata |-> [not_a_dict |-> TRUE]]

\* the retriever returned at most MaxDocs documents scored 0.2 or 0.9, one
\* of them a document the loop cannot handle
InitFault ==
  /\ chat_memories = <<>>
  /\ current_chat_id = None
  /\ minted = {}
  /\ committed = <<>>
  /\ focus_lost = FALSE
  /\ ret = NoCall
  /\ transcript = <<>>
  /\ NoQueries
  /\ chat_data = <<>>
  /\ deleted = {}
  /\ \E n \in 1..MaxDocs : \E kinds \in [1..n -> {"0.2", "0.9"}] :
       \E pos \in 1..n : \E fk \in FaultKinds :
         documents = [i \in 1..n |-> IF i = pos THEN FaultyDoc(i, fk)
                                    ELSE DocOf(i, kinds[i])]

SpecFault == InitFault /\ [][NextCtx]_vars

----------------------------------------------------------------------------
(* Properties of context assembly, checked under SpecCtx *)

Assembled == ret.op = "_get_enhanced_context"

\* the positions of the retrieved documents scored at or above the threshold
Eligible ==
  {i \in 1..Len(documents) : Score(documents[i]) >= relevance_threshold}

\* how many eligible documents come before document i: those with a higher
\* score, and those with the same score retrieved earlier
Before(i) ==
  Cardinality({j \in Eligible :
                 \/ Score(documents[j]) > Score(documents[i])
                 \/ Score(documents[j]) = Score(documents[i]) /\ j < i})

\* the position of the eligible document of rank r
Ranked(r) == CHOOSE i \in Eligible : Before(i) = r - 1

\* C17: context assembly with no document returns the "no information
\* found" text, no sources and score 0; with documents all scored below the
\* threshold it returns the other, "low relevance" text, no sources and
\* score 0.
C17_EmptyAndLowRelevance ==
  Assembled =>
    /\ documents = <<>>
         => ret.val = [context |-> NoInformation, sources |-> <<>>, relevance_score |-> Zero]
    /\ (documents # <<>> /\ Eligible = {})
         => /\ ret.val.context = LowRelevance
            /\ ret.val.context # NoInformation
            /\ ret.val.sources = <<>>
            /\ ret.val.relevance_score[1] = 0

\* an assembly of MaxDocs documents all scored below the threshold
C17_Witness ==
  /\ Assembled /\ Len(documents) = MaxDocs /\ Eligible = {}
  /\ ret.val.context.kind = "no highly relevant information"

\* C18: the documents used are the first Min(max_docs, m) of the m
\* eligible documents in descending order of score, documents of equal
\* score in retrieval order; the context entries and the citations are
\* theirs, in that order, the entries ranked 1, 2, ...
C18_TopDocsStableOrder ==
  (Assembled /\ Eligible # {}) =>
    LET k == Min(max_docs, Cardinality(Eligible))
        parts == ret.val.context.parts
    IN  /\ Len(parts) = k /\ Len(ret.val.sources) = k
        /\ \A r \in 1..k :
             /\ parts[r].rank = r
             /\ parts[r].content = documents[Ranked(r)].page_content
             /\ parts[r].source = ret.val.sources[r].source
             /\ ret.val.sources[r].source
                  = IF "filename" \in DOMAIN documents[Ranked(r)].metadata
                    THEN documents[Ranked(r)].metadata.filename
                    ELSE <<"Document", r>>

\* six eligible documents, the first two scored 0.3, 0.9 and the rest tied
\* with one of them: five are used, the last of the lowest score is left out
C18_Witness ==
  /\ Assembled /\ Len(documents) = 6 /\ Cardinality(Eligible) = 6
  /\ Score(documents[1]) = 3 /\ Score(documents[2]) = 9
  /\ Score(documents[3]) = 3 /\ Score(documents[4]) = 9
  /\ Score(documents[5]) = 3 /\ Score(documents[6]) = 3
  /\ Len(ret.val.context.parts) = max_docs
  /\ [r \in 1..5 |-> ret.val.context.parts[r].content]
       = <<Txt(2), Txt(4), Txt(1), Txt(3), Txt(5)>>

\* the score the claims give a document: its own, or 0.5 without one
ScoreAsClaimed(doc) ==
  IF "relevance_score" \in DOMAIN doc THEN doc.relevance_score ELSE 5

\* the position in documents of the document with the content c
PositionOf(c) == CHOOSE i \in 1..Len(documents) : documents[i].page_content = c

\* the sum of the claimed scores of the documents behind the first n entries
RECURSIVE ClaimedTotal(_, _)
ClaimedTotal(parts, n) ==
  IF n = 0 THEN 0
  ELSE ScoreAsClaimed(documents[PositionOf(parts[n].content)]) + ClaimedTotal(parts, n - 1)

\* C35: a document passes the filter exactly when its score is at least
\* 0.3, a score of 0.3 included; a document without a score counts as 0.5
\* in the sort, in the filter and in the mean.
C35_ThresholdAndDefault ==
  (Assembled /\ documents # <<>>) =>
    LET Kept == {i \in 1..Len(documents) : ScoreAsClaimed(documents[i]) >= 3}
        parts == ret.val.context.parts
    IN  /\ Len(parts) = Min(5, Cardinality(Kept))
        /\ \A r \in 1..Len(parts) : PositionOf(parts[r].content) \in Kept
        /\ Cardinality(Kept) <= 5
             => \A i \in Kept : \E r \in 1..Len(parts) : PositionOf(parts[r].content) = i
        /\ \A r \in 1..(Len(parts) - 1) :
             ScoreAsClaimed(documents[PositionOf(parts[r].content)])
               >= ScoreAsClaimed(documents[PositionOf(parts[r + 1].content)])
        /\ \A i \in Kept :
             (\A r \in 1..Len(parts) : PositionOf(parts[r].content) # i)
               => \A r \in 1..Len(parts) :
                    ScoreAsClaimed(documents[PositionOf(parts[r].content)])
                      >= ScoreAsClaimed(documents[i])
        /\ ret.val.relevance_score =
             IF Kept = {} THEN Zero ELSE <<ClaimedTotal(parts, Len(parts)), 10 * Len(parts)>>

\* documents scored 0.2, 0.3, none, 0.9: the last three are used, the one
\* without a score between the other two, and the mean is 1.7 / 3
C35_Witness ==
  /\ Assembled /\ Len(documents) = 4
  /\ documents[1] = DocOf(1, "0.2") /\ documents[2] = DocOf(2, "0.3")
  /\ documents[3] = DocOf(3, "unscored") /\ documents[4] = DocOf(4, "0.9")
  /\ [r \in 1..3 |-> ret.val.context.parts[r].content] = <<Txt(4), Txt(3), Txt(2)>>
  /\ ret.val.relevance_score = <<17, 30>>

----------------------------------------------------------------------------
(* Properties of context assembly with a document that raises, checked     *)
(* under SpecFault                                                         *)

\* the retrieved documents that the loop handles: the first max_docs of the
\* eligible ones
Handled == {Ranked(r) : r \in 1..Min(max_docs, Cardinality(Eligible))}

\* C34: _get_enhanced_context never raises: when handling a document
\* faults it returns the fixed "error retrieving context" text, score 0 and
\* no sources, and nothing of the context or the citations built so far.
C34_AssemblyFaultFallback ==
  Assembled =>
    /\ DOMAIN ret.val = {"context", "sources", "relevance_score"}
    /\ (\E i \in Handled : Raises(documents[i]))
         => ret.val = [context |-> ErrorContext, sources |-> <<>>, relevance_score |-> Zero]
    /\ (\A i \in Handled : ~Raises(documents[i]))
         => /\ ret.val.context # ErrorContext
            /\ Len(ret.val.sources) = Cardinality(Handled)

\* the last of four documents handled has no content: the three entries
\* built before it are not returned
C34_Witness ==
  /\ Assembled /\ Cardinality(Handled) = 4
  /\ "page_content" \notin DOMAIN documents[Ranked(4)]
  /\ \A r \in 1..3 : ~Raises(documents[Ranked(r)])
  /\ ret.val.context = ErrorContext /\ ret.val.sources = <<>>
  /\ ret.val.relevance_score = Zero

\* a document with a metadata that is not a dict makes the assembly fall back
C34_WitnessMetadata ==
  /\ Assembled
  /\ \E i \in Handled : "not_a_dict" \in DOMAIN documents[i].metadata
  /\ ret.val.context = ErrorContext

\* a document without content that the filter or the cut drops is never
\* handled: the assembly succeeds
C34_WitnessUnhandled ==
  /\ Assembled
  /\ \E i \in 1..Len(documents) : i \notin Handled /\ Raises(documents[i])
  /\ Cardinality(Handled) = max_docs
  /\ ret.val.context.kind = "sources" /\ Len(ret.val.sources) = max_docs

----------------------------------------------------------------------------
(* The chat service (services/chat_service.py) beside the manager: chats   *)
(* are created and deleted in the persisted history and in the registry.   *)

\* the entry create_new_chat stores for a new chat
NewChat == [title |-> "New Chat", messages |-> <<>>]

\* create_new_chat(custom_id); u is what uuid.uuid4() returns when called
create_new_chat(data, custom_id, u) ==
  LET id == IF custom_id \in Falsy THEN u
            ELSE IF custom_id \in DOMAIN data THEN u
            ELSE custom_id
  IN  [data |-> Put(data, id, NewChat), val |-> id]

\* delete_chat(chat_id)
delete_chat(data, chat_id) ==
  IF chat_id \in DOMAIN data
  THEN [data |-> Drop(data, chat_id), val |-> TRUE]
  ELSE [data |-> data, val |-> FALSE]

\* what uuid.uuid4() can return in create_new_chat(custom_id)
FreshForChat(custom_id) ==
  IF custom_id \in Falsy \/ custom_id \in DOMAIN chat_data
  THEN UuidPool \ minted ELSE {NoUuid}

CallCreateChat(custom_id) ==
  \E u \in FreshForChat(custom_id) :
    LET r == create_new_chat(chat_data, custom_id, u)
    IN  /\ chat_data' = r.data
        /\ minted' = Minted(u)
        /\ ret' = [op |-> "create_new_chat", val |-> r.val]
        /\ UNCHANGED <<chat_memories, current_chat_id, committed, focus_lost,
                       transcript, pqvars, documents, deleted>>

CallDeleteChat(chat_id) ==
  LET r == delete_chat(chat_data, chat_id)
  IN  /\ chat_data' = r.data
      /\ deleted' = IF r.val THEN deleted \cup {chat_id} ELSE deleted
      /\ ret' = [op |-> "delete_chat", val |-> r.val]
      /\ UNCHANGED <<mmvars, transcript, pqvars, documents>>

\* ui/components/sidebar.py, _handle_chat_deletion: the memory of the chat
\* is deleted, then the chat
HandleChatDeletion(chat_id) ==
  LET m == delete_chat_memory(MM, chat_id)
      r == delete_chat(chat_data, chat_id)
  IN  /\ Becomes(m.mm)
      /\ chat_data' = r.data
      /\ deleted' = IF m.val \/ r.val THEN deleted \cup {chat_id} ELSE deleted
      /\ ret' = [op |-> "delete_chat", val |-> r.val]
      /\ UNCHANGED <<minted, transcript, pqvars, documents>>

\* ids a caller of the service can pass: its own, one a call returned, or none
ServiceIds == ChatIds \cup minted \cup {None}

NextSvc ==
  \/ \E id \in ServiceIds : CallCreateChat(id)
  \/ \E id \in ServiceIds : CallDeleteChat(id)
  \/ \E id \in ServiceIds : HandleChatDeletion(id)
  \/ \E id \in CallerIds : CallCreate(id)
  \/ \E id \in CallerIds : CallSwitch(id)
  \/ CallStatus

SpecSvc == Init /\ [][NextSvc]_vars

----------------------------------------------------------------------------
(* Properties of the status probe and of chat ids, checked under SpecSvc *)

\* C19: get_chain_status changes neither the registry nor the focus nor the
\* chain, and reports memory_manager_active exactly when a chat is focused
\* and active_chats as the number of buffers in the registry.
C19_StatusProbe ==
  ret.op = "get_chain_status" =>
    /\ <<chat_memories, current_chat_id, chain>> = ret.found
    /\ ret.val.memory_manager_active <=> HasCurrentMemory(MM)
    /\ ret.val.active_chats = Cardinality(DOMAIN chat_memories)

\* C20: an id that a delete removed is never the id a later create_new_chat
\* or create_new_chat_memory returns.
C20_DeletedIdNotReused ==
  ret.op \in {"create_new_chat", "create_new_chat_memory"} => ret.val \notin deleted

----------------------------------------------------------------------------
(* Properties of one process_query call, checked under SpecRun *)

\* the generator g ran, or was created, in this step
Steps(g) == gens'[g] # gens[g]

\* a text without a non-blank character
Blank(t) == \A i \in 1..Len(t) : t[i] = 0

\* the fragments a rejected query can be answered with
ValidationMsgs ==
  {InvalidMsg(r) : r \in {"Empty query", "Query too short", "Query too long"}}

\* the call g has run some of its code
Started(g) == gens[g].pc \notin {"idle", "start"}

\* the call g made no retrieval call, no generation call and no commit
NoCalls(g) ==
  /\ gens[g].retrievals = 0
  /\ gens[g].generations = 0
  /\ gens[g].saved = "no"

\* the step adds no pair to a buffer: a buffer it creates is empty
NoPairAdded ==
  \A id \in DOMAIN chat_memories' :
    chat_memories'[id].msgs = IF id \in DOMAIN chat_memories
                              THEN chat_memories[id].msgs ELSE <<>>

\* the texts of a sequence of fragments, joined
RECURSIVE Joined(_)
Joined(fs) == IF fs = <<>> THEN <<>> ELSE Head(fs) \o Joined(Tail(fs))

\* C11: process_query with an empty or blank query yields the validation
\* error as its only fragment and ends; it commits nothing, leaves the
\* focus, the buffers and the chain as they are, and calls neither the
\* retriever nor the completion stream nor the chain initialization.
C11_BlankQueryNoEffect ==
  /\ [][\A g \in Gens :
          (Steps(g) /\ Blank(gens'[g].query))
            => /\ chat_memories' = chat_memories
               /\ current_chat_id' = current_chat_id
               /\ chain' = chain
               /\ gens'[g].pc \in {"start", "yield invalid", "done"}
       ]_vars
  /\ [](\A g \in Gens :
          (Started(g) /\ Blank(gens[g].query))
            => /\ gens[g].out = <<InvalidMsg("Empty query")>>
               /\ NoCalls(g)
               /\ gens[g].reinits = 0)

\* a finished call with a blank query for chat "A", made while chat "B" is
\* focused and holds a pair and "A" has no buffer
C11_Witness ==
  /\ gens[1].pc = "done" /\ gens[1].query = <<0, 0>> /\ gens[1].chat_id = "A"
  /\ gens[1].out = <<InvalidMsg("Empty query")>>
  /\ current_chat_id = "B" /\ Len(Buffer("B")) > 0
  /\ "A" \notin DOMAIN chat_memories

\* C12: process_query with a query of more than max_query_length
\* characters yields one validation error as its only fragment and makes no
\* retrieval call, no generation call and no commit; a query that is not
\* blank and not longer than max_query_length is not rejected.
C12_LongQueryRejected ==
  \A g \in Gens :
    Started(g) =>
      /\ Len(gens[g].query) > max_query_length
           => /\ Len(gens[g].out) = 1
              /\ gens[g].out[1] \in ValidationMsgs
              /\ NoCalls(g)
      /\ (~Blank(gens[g].query) /\ Len(gens[g].query) <= max_query_length)
           => /\ gens[g].pc # "yield invalid"
              /\ \A i \in 1..Len(gens[g].out) : gens[g].out[i] \notin ValidationMsgs

\* a finished call whose query has max_query_length + 1 characters
C12_Witness ==
  /\ gens[1].pc = "done" /\ Len(gens[1].query) = max_query_length + 1
  /\ gens[1].out = <<InvalidMsg("Query too long")>>

\* a committed call whose query has exactly max_query_length characters
C12_WitnessAccepted ==
  /\ gens[1].pc = "done" /\ Len(gens[1].query) = max_query_length
  /\ gens[1].saved = "ok"

C13_WitnessSlow ==
  /\ gens[1].timed_out /\ Len(gens[1].out) = 1 /\ gens[1].saved = "skipped"

\* C14: a call whose accumulated full response is empty or blank adds no
\* pair to any buffer.
C14_BlankResponseNotSaved ==
  [][\A g \in Gens :
       (Steps(g) /\ Blank(gens'[g].full_response)) => NoPairAdded
    ]_vars

\* a finished call whose response was one blank chunk, with its chat focused
C14_Witness ==
  /\ gens[1].pc = "done" /\ gens[1].out = <<(<<0>>)>>
  /\ gens[1].full_response = <<0>>
  /\ gens[1].saved = "skipped"
  /\ HasCurrentMemory(MM)

\* C15: with no chain and a vector store that cannot be initialized, a
\* call with a valid query yields the "unavailable" message as its only
\* fragment and ends, after one attempt to initialize the chain, without a
\* retrieval call, a generation call or a commit.
C15_UnavailableOnce ==
  /\ [][\A g \in Gens :
          (/\ Steps(g) /\ gens[g].pc = "start"
           /\ ~chain /\ ~store_ok
           /\ ~Blank(gens[g].query) /\ Len(gens[g].query) <= max_query_length)
            => /\ gens'[g].pc = "yield unavailable"
               /\ gens'[g].out = <<UnavailableMsg>>
               /\ gens'[g].reinits = 1
               /\ NoPairAdded
       ]_vars
  /\ [][\A g \in Gens :
          (Steps(g) /\ gens[g].pc = "yield unavailable")
            => /\ gens'[g] = [gens[g] EXCEPT !.pc = "done"]
               /\ chat_memories' = chat_memories
       ]_vars
  /\ [](\A g \in Gens :
          gens[g].pc = "yield unavailable"
            => gens[g].out = <<UnavailableMsg>> /\ gens[g].reinits = 1 /\ NoCalls(g))

\* a finished call that found the system unavailable
C15_Witness ==
  /\ gens[1].pc = "done" /\ gens[1].out = <<UnavailableMsg>>
  /\ gens[1].reinits = 1 /\ NoCalls(1)
  /\ ~chain

\* key occurs in e when case is ignored
Mentions(e, key) ==
  \E i \in 1..Len(e) :
    /\ i + Len(key) - 1 <= Len(e)
    /\ \A j \in 1..Len(key) :
         (IF e[i + j - 1] \in 201..226 THEN e[i + j - 1] - 200 ELSE e[i + j - 1]) = key[j]

\* the message the fault text e calls for
MessageFor(e) ==
  CASE Mentions(e, RateLimitKey) -> RateLimitMsg
    [] ~Mentions(e, RateLimitKey) /\ Mentions(e, TimeoutKey) -> TimeoutMsg
    [] ~Mentions(e, RateLimitKey) /\ ~Mentions(e, TimeoutKey) /\ Mentions(e, ContextKey)
         -> ContextMsg
    [] OTHER -> GenericMsg

\* C16: when the completion stream faults, the call yields after the
\* fragments already streamed exactly one of the four fixed messages,
\* chosen by what the fault text mentions (case ignored) with "rate limit"
\* before "timeout" before "context" before the generic one; the fault text
\* is not yielded and the call then ends.
C16_FaultClassified ==
  /\ [][\A g \in Gens :
          (Steps(g) /\ gens'[g].pc = "yield error")
            => /\ gens'[g].out = Append(gens[g].out, MessageFor(gens'[g].fault))
               /\ \A i \in 1..Len(gens'[g].out) : gens'[g].out[i] # gens'[g].fault
       ]_vars
  /\ [][\A g \in Gens :
          (Steps(g) /\ gens[g].pc = "yield error")
            => gens'[g] = [gens[g] EXCEPT !.pc = "done"]
       ]_vars

\* a call that ended after a fragment and a fault whose text mentions both
\* "timeout" and "rate limit"
C16_Witness ==
  /\ gens[1].pc = "done"
  /\ gens[1].fault = TimeoutKey \o <<0>> \o RateLimitKey
  /\ gens[1].out = <<(<<9>>), RateLimitMsg>>

\* a call that ended after a fault whose text is "Rate Limit"
C16_WitnessCase ==
  /\ gens[1].pc = "done"
  /\ gens[1].fault = <<218, 1, 20, 5, 0, 212, 9, 13, 9, 20>>
  /\ gens[1].out = <<RateLimitMsg>>

----------------------------------------------------------------------------
(* Properties of the pipeline, checked under SpecPQ *)

\* the step in which the call g saves its exchange
Commits(g) == gens[g].saved = "no" /\ gens'[g].saved = "ok"

\* C3: the exchange of a process_query(q, s) call that reaches commit goes
\* to the buffer of chat s and to no other buffer, whatever was called
\* between its fragments.
C3_CommitToOwnChat ==
  [][\A g \in Gens :
       (Commits(g) /\ gens[g].chat_id \notin Falsy) =>
         LET s == gens[g].chat_id
             pair == <<gens[g].processed_query, gens'[g].full_response>>
         IN  /\ s \in DOMAIN chat_memories /\ s \in DOMAIN chat_memories'
             /\ chat_memories'[s].msgs = Append(chat_memories[s].msgs, pair)
             /\ \A x \in DOMAIN chat_memories' :
                  x # s => x \in DOMAIN chat_memories /\ chat_memories'[x] = chat_memories[x]
    ]_vars


----------------------------------------------------------------------------
(* Properties of a call made among other calls of the manager, checked     *)
(* under SpecMix (C26: under SpecPQ, where two calls interleave)           *)

\* the step is the first request to the generator g and reaches the stream
StartsStream(g) == gens[g].pc = "start" /\ gens'[g].generations = 1

\* what the chat id shows when the step begins; a chat without a buffer
\* gets an empty one
HistoryOf(id) == IF id \in DOMAIN chat_memories THEN Buffer(id) ELSE <<>>

\* the pair is the exchange the call g committed
CommittedBy(pair, g) ==
  gens[g].saved = "ok" /\ pair = <<gens[g].processed_query, gens[g].full_response>>

\* C26: the history put into the generation input of process_query(q, s)
\* is what the buffer of s holds when retrieval runs, whichever chat was
\* focused since the call was made: it holds no exchange of a call for
\* another chat, and not the exchange being generated.
C26_HistoryIsOwnBuffer ==
  [][\A g \in Gens :
       (StartsStream(g) /\ gens[g].chat_id \notin Falsy)
         => /\ gens'[g].history = HistoryOf(gens[g].chat_id)
            /\ \A i \in 1..Len(gens'[g].history) :
                 /\ gens'[g].history[i]
                      # <<gens'[g].processed_query, gens'[g].full_response>>
                 /\ \A g2 \in Gens \ {g} :
                      CommittedBy(gens'[g].history[i], g2)
                        => gens[g2].chat_id = gens[g].chat_id
    ]_vars

\* the call g went on after a fault of retrieval or assembly: the stream
\* was called, an error is yielded only for a fault of the stream, the
\* fragments are the response, and the call ends with the commit of a
\* response that is not blank
Proceeds(g) ==
  /\ gens[g].generations = 1
  /\ gens[g].pc = "yield error" => gens[g].fault # <<>>
  /\ gens[g].fault = <<>> => Joined(gens[g].out) = gens[g].full_response
  /\ (gens[g].pc = "done" /\ gens[g].fault = <<>>)
       => IF Blank(gens[g].full_response)
          THEN gens[g].saved = "skipped"
          ELSE gens[g].saved \in {"ok", "failed"}

\* C27: when retrieval or the context assembly faults, the call goes on:
\* the stream is called with the fixed "error retrieving information"
\* context, its fragments are yielded and a non-blank response is committed.
C27_RetrievalFaultDegrades ==
  \A g \in Gens :
    gens[g].rfault # "none"
      => gens[g].context = "retrieval error" /\ Proceeds(g)

\* C27 as the code has it: a fault of the retriever gives the "error
\* retrieving information" context, a fault of the context assembly the
\* "error retrieving context" text; in both cases the call goes on.
C27_FaultDegradesByKind ==
  \A g \in Gens :
    /\ gens[g].rfault = "retriever" => gens[g].context = "retrieval error"
    /\ gens[g].rfault = "assembly" => gens[g].context = "assembly error"
    /\ gens[g].rfault # "none" => Proceeds(g)

\* a call whose retrieval raised yielded a fragment and committed it
C27_Witness ==
  /\ gens[1].rfault = "retriever" /\ gens[1].pc = "done"
  /\ gens[1].out = <<(<<9>>)>> /\ gens[1].saved = "ok"
  /\ HasCurrentMemory(MM)
  /\ Buffer(current_chat_id)[Len(Buffer(current_chat_id))] = <<(<<1>>), (<<9>>)>>

\* a call whose context assembly raised yielded a fragment and committed it
C27_WitnessAssembly ==
  /\ gens[1].rfault = "assembly" /\ gens[1].pc = "done"
  /\ gens[1].context = "assembly error"
  /\ gens[1].out = <<(<<9>>)>> /\ gens[1].saved = "ok"

\* C28: when the commit at the end of a call fails (the focused chat was
\* deleted while the fragments were streamed), the caller gets nothing
\* more: no error fragment, the call ends normally, and no buffer is
\* created and no pair written.
C28_CommitFailureSilent ==
  [][\A g \in Gens :
       (/\ Steps(g)
        /\ gens[g].pc = "yield chunk" /\ gens'[g].pc # "yield chunk"
        /\ gens'[g].fault = <<>>
        /\ ~Blank(gens'[g].full_response)
        /\ ~HasCurrentMemory(MM))
         => /\ gens'[g].pc = "done"
            /\ gens'[g].saved = "failed"
            /\ gens'[g].out = gens[g].out
            /\ chat_memories' = chat_memories
            /\ current_chat_id' = current_chat_id
    ]_vars

\* a call for chat "A" ended after "A", focused, was deleted: the commit
\* failed, the caller has its fragment, "A" has no buffer
C28_Witness ==
  /\ gens[1].chat_id = "A" /\ gens[1].pc = "done" /\ gens[1].saved = "failed"
  /\ gens[1].out = <<(<<9>>)>> /\ gens[1].fault = <<>>
  /\ focus_lost /\ "A" \notin DOMAIN chat_memories

\* C29: a call commits at most one pair, and only when it is resumed after
\* its last fragment; a call that is not resumed commits nothing.
C29_OneCommitAtTheEnd ==
  /\ [][\A g \in Gens :
          Steps(g) =>
            IF gens'[g].saved = "ok"
            THEN /\ gens[g].saved = "no"
                 /\ gens[g].pc = "yield chunk" /\ gens'[g].pc = "done"
                 /\ gens'[g].out = gens[g].out
                 /\ \A id \in DOMAIN chat_memories' :
                      chat_memories'[id].msgs =
                        IF id = current_chat_id
                        THEN Append(chat_memories[id].msgs,
                                    <<gens'[g].processed_query, gens'[g].full_response>>)
                        ELSE chat_memories[id].msgs
            ELSE NoPairAdded
       ]_vars
  /\ [](\A g \in Gens : gens[g].pc # "done" => gens[g].saved = "no")

\* a call whose caller stopped after two fragments, and the focused chat
\* holds nothing of it
C29_Witness ==
  /\ gens[1].pc = "yield chunk" /\ Len(gens[1].out) = 2 /\ gens[1].saved = "no"
  /\ current_chat_id = "A" /\ gens[1].chat_id = "A" /\ Buffer("A") = <<>>

\* a call that committed its one pair when it was resumed after its last fragment
C29_WitnessCommit ==
  /\ gens[1].pc = "done" /\ gens[1].saved = "ok" /\ Len(gens[1].out) = 2
  /\ current_chat_id = "A" /\ gens[1].chat_id = "A"
  /\ Buffer("A") = <<(<<gens[1].processed_query, gens[1].full_response>>)>>

\* C30: when the completion stream faults, nothing is committed to any
\* buffer, also when fragments were yielded before the fault.
C30_FaultCommitsNothing ==
  [][\A g \in Gens :
       (Steps(g) /\ gens'[g].fault # <<>>)
         => NoPairAdded /\ gens'[g].saved = "no"
    ]_vars

\* a call that ended after a fragment and then a fault of the stream; the
\* focused chat holds nothing of it
C30_Witness ==
  /\ gens[1].pc = "done" /\ gens[1].fault # <<>>
  /\ gens[1].out = <<(<<9>>), ErrorMsg(gens[1].fault)>>
  /\ gens[1].saved = "no"
  /\ current_chat_id = "A" /\ gens[1].chat_id = "A" /\ Buffer("A") = <<>>


----------------------------------------------------------------------------
(* Properties of two calls with the same query, checked under SpecTwo *)

\* the call g reached the completion stream
Generating(g) == gens[g].generations = 1

\* the fragments the call g yielded from the stream: all it yielded but the
\* message that reports a fault of the stream
Fragments(g) ==
  IF gens[g].fault # <<>>
  THEN SubSeq(gens[g].out, 1, Len(gens[g].out) - 1)
  ELSE gens[g].out

\* C31: every fragment process_query yields during generation is not
\* empty: the empty chunks of the stream are neither forwarded nor counted;
\* the committed response is the fragments yielded, joined in order, and it
\* is paired with the trimmed query.
C31_NoEmptyFragment ==
  \A g \in Gens :
    Generating(g) =>
      /\ \A n \in 1..Len(gens[g].out) : gens[g].out[n] # <<>>
      /\ gens[g].chunk_count = Len(Fragments(g))
      /\ gens[g].full_response = Joined(Fragments(g))
      /\ gens[g].saved = "ok" =>
           \E id \in DOMAIN chat_memories :
             \E n \in 1..Len(chat_memories[id].msgs) :
               chat_memories[id].msgs[n] = <<Strip(gens[g].query), Joined(gens[g].out)>>

\* a call that passed over empty chunks, yielded a blank and a non-blank
\* fragment and committed the two, joined, under the query without its blanks
C31_Witness ==
  /\ gens[1].pc = "done" /\ gens[1].saved = "ok" /\ gens[1].skipped >= 1
  /\ gens[1].out = <<(<<0>>), (<<9>>)>> /\ gens[1].chunk_count = 2
  /\ gens[2].pc = "idle"
  /\ chat_memories["A"].msgs[Len(chat_memories["A"].msgs)] = <<(<<7>>), (<<0, 9>>)>>

\* the step is the successful commit of the call g
CommitsNow(g) == gens[g].saved = "no" /\ gens'[g].saved = "ok"

\* C32: each successful process_query call appends its own pair, also when
\* the chat already holds the pair of a call with the same query: the
\* buffer then shows one pair more, up to the window bound.
C32_NoDeduplication ==
  [][\A g \in Gens :
       CommitsNow(g) =>
         LET pair == <<gens'[g].processed_query, gens'[g].full_response>>
         IN  /\ chat_memories'["A"].msgs = Append(chat_memories["A"].msgs, pair)
             /\ Len(Buffer("A")') = Min(Len(Buffer("A")) + 1, window_size)
             /\ Buffer("A")'[Len(Buffer("A")')] = pair
    ]_vars

\* both calls committed the same pair, and the chat ends with the two
C32_Witness ==
  /\ gens[1].saved = "ok" /\ gens[2].saved = "ok"
  /\ gens[1].full_response = gens[2].full_response
  /\ Len(chat_memories["A"].msgs) = 2
  /\ chat_memories["A"].msgs[1] = chat_memories["A"].msgs[2]
  /\ Buffer("A") = chat_memories["A"].msgs

\* both calls committed the same pair into a chat that was full: the window
\* shows the two last
C32_WitnessFull ==
  /\ gens[1].saved = "ok" /\ gens[2].saved = "ok"
  /\ gens[1].full_response = gens[2].full_response
  /\ Len(chat_memories["A"].msgs) = window_size + 2
  /\ Len(Buffer("A")) = window_size
  /\ Buffer("A")[window_size] = Buffer("A")[window_size - 1]
  /\ Buffer("A")[window_size] = <<gens[1].processed_query, gens[1].full_response>>

\* C33: after a call answered "unavailable" the engine can be called
\* again: a call made when the vector store has become available recreates
\* the chain and goes on to generation.
C33_CallableAfterUnavailable ==
  [][\A g \in Gens :
       (/\ Steps(g) /\ gens[g].pc = "start"
        /\ ~Blank(gens[g].query) /\ Len(gens[g].query) <= max_query_length
        /\ ~chain /\ store_ok)
         => /\ chain'
            /\ gens'[g].reinits = 1
            /\ gens'[g].generations = 1
            /\ UnavailableMsg \notin {gens'[g].out[n] : n \in 1..Len(gens'[g].out)}
    ]_vars

\* the first call answered "unavailable"; the second, made after the store
\* recovered, recreated the chain, streamed and committed
C33_Witness ==
  /\ gens[1].pc = "done" /\ gens[1].out = <<UnavailableMsg>> /\ gens[1].generations = 0
  /\ gens[2].pc = "done" /\ gens[2].reinits = 1 /\ gens[2].generations = 1
  /\ gens[2].out = <<(<<9>>)>> /\ gens[2].saved = "ok"
  /\ chain

====
